---- MODULE Spec2Model ----
(***************************************************************************)
(* Model of menubot (src/menubot.tsx): scoreItem, rankItems, sumPrice,      *)
(* sumMacros, validateMenuData, generateDietaryInfo, explanationText, and  *)
(* the image, analysis, loading and error state of the screen.             *)
(*                                                                         *)
(* JavaScript values.  A scalar is a record [t, n, s]: t is the value's    *)
(* kind ("undefined", "null", "number", "string"), n the number and s the  *)
(* string.  A number is held in HALVES: n = 2 * value, so that 4.5 is      *)
(* n = 9 and Math.round has something to round.  An array is [t, a] with   *)
(* t = "array" and a its elements; a value that is not an array has        *)
(* another t and a = <<>>.  An object of the MenuItem shape is a record of *)
(* its seven fields plus t ("object", or "null"/"undefined" when the place *)
(* holds no object).  Scores are held in units of 1/2000.                  *)
(***************************************************************************)
EXTENDS Integers, Sequences, FiniteSets, TLC

VARIABLES parsed, pc, validated, revalidated,
          menu, hpc, scores, order, indices, total, macros,
          imageUri, imageBase64, analysis, analysisOf, loading, error, calls,
          hungerLevel, speaking, explanation, dietary, dietItems

vars == <<parsed, pc, validated, revalidated,
          menu, hpc, scores, order, indices, total, macros,
          imageUri, imageBase64, analysis, analysisOf, loading, error, calls,
          hungerLevel, speaking, explanation, dietary, dietItems>>

validateVars == <<parsed, pc, validated, revalidated>>
helperVars == <<menu, hpc, scores, order, indices, total, macros>>
stateVars ==
    <<imageUri, imageBase64, analysis, analysisOf, loading, error, calls, hungerLevel, speaking>>
renderVars == <<explanation, dietary, dietItems>>
appVars == <<stateVars, renderVars>>

------------------------------------------------------------------------------
(* Bounds of the model *)

MaxItems == 2

MaxMenu == 3

MaxIndices == 3

MaxPhotos == 2

------------------------------------------------------------------------------
(* JavaScript scalars *)

Undef == [t |-> "undefined", n |-> 0, s |-> ""]

Null == [t |-> "null", n |-> 0, s |-> ""]

Num(h) == [t |-> "number", n |-> h, s |-> ""]

Str(x) == [t |-> "string", n |-> 0, s |-> x]

\* a whole number k
Whole(k) == Num(2 * k)

\* JS truthiness: 0, "", null and undefined are falsy
Truthy(v) ==
    CASE v.t = "number" -> v.n # 0
      [] v.t = "string" -> v.s # ""
      [] OTHER -> FALSE

\* a || d
OrElse(v, d) == IF Truthy(v) THEN v ELSE d

\* a ?? d
Coalesce(v, d) == IF v.t \in {"undefined", "null"} THEN d ELSE v

\* Math.round on halves: floor(x + 0.5)
MathRound(h) == 2 * ((h + 1) \div 2)

\* Math.abs
MathAbs(h) == IF h < 0 THEN -h ELSE h

------------------------------------------------------------------------------
(* Arrays and objects *)

Arr(seq) == [t |-> "array", a |-> seq]

NotArr(kind) == [t |-> kind, a |-> <<>>]

IsArray(v) == v.t = "array"

Item(nm, ds, pr, cal, p, c, f) ==
    [t |-> "object", name |-> nm, description |-> ds, price |-> pr,
     calories |-> cal, protein_g |-> p, carbs_g |-> c, fat_g |-> f]

\* the place of an array that holds no object: null, or undefined
NoItem(kind) ==
    [t |-> kind, name |-> Undef, description |-> Undef, price |-> Undef,
     calories |-> Undef, protein_g |-> Undef, carbs_g |-> Undef, fat_g |-> Undef]

\* items[i] for a JS number i: undefined unless i is an integer within the array
At(items, i) ==
    IF i.t = "number" /\ i.n % 2 = 0 /\ i.n \div 2 >= 0 /\ i.n \div 2 < Len(items)
    THEN items[(i.n \div 2) + 1]
    ELSE NoItem("undefined")

\* an object of the Combo shape
Combo(title, idxs, rationale) ==
    [t |-> "object", title |-> title, item_indices |-> idxs, rationale |-> rationale]

\* what combos?.[0] is when it is no object: undefined, or null
NoCombo(kind) ==
    [t |-> kind, title |-> Undef, item_indices |-> NotArr("undefined"), rationale |-> Undef]

\* x?.field : undefined when x is null or undefined
Opt(x, field) == IF x.t \in {"undefined", "null"} THEN Undef ELSE x[field]

------------------------------------------------------------------------------
(* Pure helpers *)

\* the heuristic as its comment words it (protein, kcal density and fat): no carbs term
scoreItemNoCarbs(it) ==
    LET p == Coalesce(it.protein_g, Whole(0)).n
        cals == Coalesce(it.calories, Whole(0)).n
        fat == Coalesce(it.fat_g, Whole(0)).n
    IN  2000 * p - 800 * fat - 5 * cals

\* the fat term with its sign flipped
scoreItemFatBonus(it) ==
    LET p == Coalesce(it.protein_g, Whole(0)).n
        cals == Coalesce(it.calories, Whole(0)).n
        fat == Coalesce(it.fat_g, Whole(0)).n
        carbs == Coalesce(it.carbs_g, Whole(0)).n
    IN  2000 * p + 800 * fat - 5 * cals - 300 * carbs

\* p * 2 - fat * 0.8 - cals * 0.005 - carbs * 0.3, in units of 1/2000
scoreItem(it) ==
    LET p == Coalesce(it.protein_g, Whole(0)).n
        cals == Coalesce(it.calories, Whole(0)).n
        fat == Coalesce(it.fat_g, Whole(0)).n
        carbs == Coalesce(it.carbs_g, Whole(0)).n
    IN  2000 * p - 800 * fat - 5 * cals - 300 * carbs

\* items.map((it, idx) => ({ idx, s: scoreItem(it) }))
Scored(items) == [k \in 1..Len(items) |-> [idx |-> k - 1, s |-> scoreItem(items[k])]]

\* the comparator (a, b) => b.s - a.s
Compare(a, b) == b.s - a.s

\* Array.prototype.sort is stable: x goes after every element it does not
\* have to precede (Compare(e, x) <= 0 keeps e before x)
RECURSIVE InsertSorted(_, _)
InsertSorted(sorted, x) ==
    IF sorted = <<>> THEN <<x>>
    ELSE IF Compare(Head(sorted), x) <= 0
         THEN <<Head(sorted)>> \o InsertSorted(Tail(sorted), x)
         ELSE <<x>> \o sorted

RECURSIVE SortFrom(_, _)
SortFrom(sorted, rest) ==
    IF rest = <<>> THEN sorted
    ELSE SortFrom(InsertSorted(sorted, Head(rest)), Tail(rest))

\* the comparator the other way round: a.s - b.s
rankItemsAscending(items) ==
    LET sorted == SortFrom(<<>>, Scored(items))
    IN  [k \in 1..Len(sorted) |-> Whole(sorted[Len(sorted) + 1 - k].idx)]

\* of several items with one score only the first is kept
rankItemsDedup(items) ==
    LET First(x) == \A k \in 1..Len(items) : scoreItem(items[k]) = x.s => k - 1 >= x.idx
        sorted == SelectSeq(SortFrom(<<>>, Scored(items)), First)
    IN  [k \in 1..Len(sorted) |-> Whole(sorted[k].idx)]

rankItems(items) ==
    LET sorted == SortFrom(<<>>, Scored(items))
    IN  [k \in 1..Len(sorted) |-> Whole(sorted[k].idx)]

\* one decimal digit
Digit(d) == SubSeq("0123456789", d + 1, d + 1)

RECURSIVE NatToString(_)
NatToString(k) == IF k < 10 THEN Digit(k) ELSE NatToString(k \div 10) \o Digit(k % 10)

\* String(x) of a number of h halves: "12", "12.5", "-3"
NumberToString(h) ==
    (IF h < 0 THEN "-" ELSE "") \o NatToString(MathAbs(h) \div 2)
        \o (IF MathAbs(h) % 2 = 1 THEN ".5" ELSE "")

\* String(v), as a template literal or + converts a value
JsString(v) ==
    CASE v.t = "number" -> NumberToString(v.n)
      [] v.t = "string" -> v.s
      [] OTHER -> v.t

\* a + b: the sum of two numbers, the concatenation when either is a string
Plus(a, b) ==
    IF a.t = "string" \/ b.t = "string"
    THEN Str(JsString(a) \o JsString(b))
    ELSE Num(a.n + b.n)

\* indices.reduce((sum, i) => sum + (items[i]?.price || 0), 0)
RECURSIVE ReducePrice(_, _, _)
ReducePrice(items, idxs, sum) ==
    IF idxs = <<>> THEN sum
    ELSE ReducePrice(items, Tail(idxs),
                     Plus(sum, OrElse(Opt(At(items, Head(idxs)), "price"), Whole(0))))

\* items.at(i) for items[i]: a negative index counts from the end
sumPriceAt(items, idxs) ==
    ReducePrice(items,
                [k \in 1..Len(idxs) |->
                    IF idxs[k].n < 0 THEN Num(idxs[k].n + 2 * Len(items)) ELSE idxs[k]],
                Whole(0))

sumPrice(items, idxs) == ReducePrice(items, idxs, Whole(0))

ZeroMacros == [calories |-> Whole(0), protein_g |-> Whole(0),
               carbs_g |-> Whole(0), fat_g |-> Whole(0)]

RECURSIVE ReduceMacros(_, _, _)
ReduceMacros(items, idxs, acc) ==
    IF idxs = <<>> THEN acc
    ELSE LET it == At(items, Head(idxs))
         IN  ReduceMacros(items, Tail(idxs),
               [calories |-> Plus(acc.calories, OrElse(Opt(it, "calories"), Whole(0))),
                protein_g |-> Plus(acc.protein_g, OrElse(Opt(it, "protein_g"), Whole(0))),
                carbs_g |-> Plus(acc.carbs_g, OrElse(Opt(it, "carbs_g"), Whole(0))),
                fat_g |-> Plus(acc.fat_g, OrElse(Opt(it, "fat_g"), Whole(0)))])

sumMacros(items, idxs) == ReduceMacros(items, idxs, ZeroMacros)

------------------------------------------------------------------------------
(* validateMenuData *)

Returned(v) == [threw |-> FALSE, value |-> v]

NoAnalysis == [items |-> NotArr("undefined"), health_rank |-> NotArr("undefined"),
               combos |-> NotArr("undefined"), notes |-> Undef]

\* a TypeError leaves the function: nothing is returned
Threw == [threw |-> TRUE, value |-> NoAnalysis]

\* the object literal of validated.items.map(item => ({ ... }))
CoerceItem(item) ==
    Item(OrElse(item.name, Str("Unknown Item")),
         OrElse(item.description, Str("")),
         OrElse(item.price, Whole(0)),
         OrElse(item.calories, Whole(0)),
         OrElse(item.protein_g, Whole(0)),
         OrElse(item.carbs_g, Whole(0)),
         OrElse(item.fat_g, Whole(0)))

CalorieTolerance == 100

\* the overwrite splits the difference between the stated and the calculated value
RepairCaloriesBlend(item) ==
    LET protein == OrElse(item.protein_g, Whole(0)).n
        carbs == OrElse(item.carbs_g, Whole(0)).n
        fat == OrElse(item.fat_g, Whole(0)).n
        calories == OrElse(item.calories, Whole(0)).n
        calculatedCalories == (protein * 4) + (carbs * 4) + (fat * 9)
    IN  IF calories > 0 /\ MathAbs(calculatedCalories - calories) > 2 * CalorieTolerance
        THEN [item EXCEPT !.calories = Num(MathRound((calculatedCalories + calories) \div 2))]
        ELSE item

\* the discrepancy test with >= for >
RepairCaloriesAtLeast(item) ==
    LET protein == OrElse(item.protein_g, Whole(0)).n
        carbs == OrElse(item.carbs_g, Whole(0)).n
        fat == OrElse(item.fat_g, Whole(0)).n
        calories == OrElse(item.calories, Whole(0)).n
        calculatedCalories == (protein * 4) + (carbs * 4) + (fat * 9)
    IN  IF calories > 0 /\ MathAbs(calculatedCalories - calories) >= 2 * CalorieTolerance
        THEN [item EXCEPT !.calories = Num(MathRound(calculatedCalories))]
        ELSE item

\* the body of validated.items.forEach(item => { ... }); numbers are halves,
\* so the 100 kcal of the test are 2 * CalorieTolerance
RepairCalories(item) ==
    LET protein == OrElse(item.protein_g, Whole(0)).n
        carbs == OrElse(item.carbs_g, Whole(0)).n
        fat == OrElse(item.fat_g, Whole(0)).n
        calories == OrElse(item.calories, Whole(0)).n
        calculatedCalories == (protein * 4) + (carbs * 4) + (fat * 9)
    IN  IF calories > 0 /\ MathAbs(calculatedCalories - calories) > 2 * CalorieTolerance
        THEN [item EXCEPT !.calories = Num(MathRound(calculatedCalories))]
        ELSE item

\* idx >= 0 && idx < length, on the number idx converts to: null converts
\* to 0, undefined to NaN (every comparison with NaN is false)
InBounds(idx, length) ==
    CASE idx.t = "number" -> idx.n >= 0 /\ idx.n < 2 * length
      [] idx.t = "null" -> 0 < length
      [] OTHER -> FALSE

\* the ranking regenerated whatever was supplied
NeedsRankingAlways(rank) == TRUE

\* !Array.isArray(validated.health_rank) || validated.health_rank.length === 0
NeedsRanking(rank) == ~IsArray(rank) \/ Len(rank.a) = 0

\* the items returned in the opposite order
validateMenuDataReversed(p) ==
    IF ~IsArray(p.items) THEN Threw
    ELSE IF \E k \in 1..Len(p.items.a) : p.items.a[k].t \in {"null", "undefined"}
    THEN Threw
    ELSE
      LET items1 == [k \in 1..Len(p.items.a) |->
                        RepairCalories(CoerceItem(p.items.a[Len(p.items.a) + 1 - k]))]
          KeepIdx(idx) == InBounds(idx, Len(items1))
          rank1 == IF NeedsRanking(p.health_rank)
                   THEN rankItems(items1)
                   ELSE p.health_rank.a
          rank2 == SelectSeq(rank1, KeepIdx)
          rank3 == IF Len(rank2) # Len(items1) THEN rankItems(items1) ELSE rank2
      IN  Returned([items |-> Arr(items1), health_rank |-> Arr(rank3),
                    combos |-> p.combos, notes |-> p.notes])

validateMenuData(p) ==
    IF ~IsArray(p.items) THEN Threw   \* validated.items.map is not callable
    ELSE IF \E k \in 1..Len(p.items.a) : p.items.a[k].t \in {"null", "undefined"}
    THEN Threw                        \* item.name of null
    ELSE
      LET items1 == [k \in 1..Len(p.items.a) |-> RepairCalories(CoerceItem(p.items.a[k]))]
          KeepIdx(idx) == InBounds(idx, Len(items1))
          rank1 == IF NeedsRanking(p.health_rank)
                   THEN rankItems(items1)
                   ELSE p.health_rank.a
          rank2 == SelectSeq(rank1, KeepIdx)
          rank3 == IF Len(rank2) # Len(items1) THEN rankItems(items1) ELSE rank2
      IN  Returned([items |-> Arr(items1), health_rank |-> Arr(rank3),
                    combos |-> p.combos, notes |-> p.notes])

\* how often a call of validateMenuData that returns invokes rankItems:
\* for a health_rank that is no array or empty, and again when the filter
\* has left another number of entries than there are items
RankItemsCalls(p) ==
    LET length == Len(p.items.a)
        KeepIdx(idx) == InBounds(idx, length)
        first == NeedsRanking(p.health_rank)
        kept == IF first THEN length ELSE Len(SelectSeq(p.health_rank.a, KeepIdx))
    IN  (IF first THEN 1 ELSE 0) + (IF kept # length THEN 1 ELSE 0)

\* validated is parsed itself, no copy
AssignedObjectNoCopy == "parsed"

\* the object whose items and health_rank are assigned: validated, the copy
\* the spread makes of parsed
AssignedObject == "validated"

\* the objects whose calories forEach overwrites: the object literals map
\* has built, which validated.items holds by then
OverwrittenItems == "validated.items"

\* the raw input after validateMenuData(p): a write reaches it only through
\* an object that validated shares with it
InputAfter(p) ==
    LET out == validateMenuData(p)
    IN  IF out.threw THEN p
        ELSE [p EXCEPT
                !.items =
                    IF AssignedObject = "parsed" THEN out.value.items
                    ELSE IF OverwrittenItems = "parsed.items"
                    THEN Arr([k \in 1..Len(p.items.a) |->
                                [p.items.a[k] EXCEPT
                                    !.calories = out.value.items.a[k].calories]])
                    ELSE @,
                !.health_rank =
                    IF AssignedObject = "parsed" THEN out.value.health_rank ELSE @]

------------------------------------------------------------------------------
(* The explanation text *)

\* n.toFixed(2) of a number of h halves
ToFixed2(h) ==
    (IF h < 0 THEN "-" ELSE "") \o NatToString(MathAbs(h) \div 2)
        \o (IF MathAbs(h) % 2 = 1 THEN ".50" ELSE ".00")

\* the pound sign is written GBP and the dash of a missing price "-"
gbp(v) == IF v.t = "number" THEN "GBP" \o ToFixed2(v.n) ELSE "-"

\* the figure cut off below the point
RoundTextDown(v) ==
    CASE v.t = "number" -> NumberToString(2 * (v.n \div 2))
      [] v.t = "null" -> "0"
      [] OTHER -> "NaN"

\* `${Math.round(x)}`: the strings of the model are no numerals, so they round to NaN
RoundText(v) ==
    CASE v.t = "number" -> NumberToString(MathRound(v.n))
      [] v.t = "null" -> "0"
      [] OTHER -> "NaN"

\* names.join(' + ')
RECURSIVE Join(_)
Join(names) ==
    IF names = <<>> THEN ""
    ELSE IF Len(names) = 1 THEN JsString(names[1])
    ELSE JsString(names[1]) \o " + " \o Join(Tail(names))

\* x?.[0] of health_rank
FirstRank(rank) == IF IsArray(rank) /\ Len(rank.a) > 0 THEN rank.a[1] ELSE Undef

\* the last combo for the first
LastCombo(combos) ==
    IF IsArray(combos) /\ Len(combos.a) > 0 THEN combos.a[Len(combos.a)]
    ELSE NoCombo("undefined")

\* x?.[0] of combos, an array or null or absent
FirstCombo(combos) ==
    IF IsArray(combos) /\ Len(combos.a) > 0 THEN combos.a[1] ELSE NoCombo("undefined")

Explained(line, price, summary, text) ==
    [done |-> TRUE, threw |-> FALSE, choiceLine |-> line, price |-> price,
     summary |-> summary, text |-> text]

\* a TypeError leaves the memo: the render fails
ExplainThrew ==
    [done |-> TRUE, threw |-> TRUE, choiceLine |-> "", price |-> "",
     summary |-> ZeroMacros, text |-> ""]

explanationText(a) ==
    IF a = Null THEN Explained("", "", ZeroMacros, "")
    ELSE
      LET items == a.items.a
          top == FirstRank(a.health_rank)
          best == IF top.t = "number" THEN At(items, top) ELSE NoItem("undefined")
          combo == FirstCombo(a.combos)
          hasCombo == combo.t = "object"
          hasBest == best.t = "object"
      IN  IF hasCombo /\ ~IsArray(combo.item_indices)
          THEN ExplainThrew              \* indices.reduce of undefined
          ELSE
            LET idxs == combo.item_indices.a
                price == IF hasCombo THEN gbp(sumPrice(items, idxs))
                         ELSE IF hasBest THEN gbp(best.price) ELSE "-"
                summary ==
                    IF hasCombo THEN sumMacros(items, idxs)
                    ELSE IF hasBest
                    THEN [calories |-> OrElse(best.calories, Whole(0)),
                          protein_g |-> OrElse(best.protein_g, Whole(0)),
                          carbs_g |-> OrElse(best.carbs_g, Whole(0)),
                          fat_g |-> OrElse(best.fat_g, Whole(0))]
                    ELSE ZeroMacros
                names == SelectSeq([k \in 1..Len(idxs) |-> Opt(At(items, idxs[k]), "name")],
                                   Truthy)
                choiceLine ==
                    IF hasCombo
                    THEN "Top pairing: " \o JsString(combo.title) \o " - " \o Join(names)
                             \o " (" \o price \o ")."
                    ELSE IF hasBest
                    THEN "Healthiest single: " \o JsString(best.name)
                             \o " (" \o gbp(best.price) \o ")."
                    ELSE "No clear recommendation."
                closing == OrElse(OrElse(combo.rationale, a.notes), Str(""))
            IN  Explained(choiceLine, price, summary,
                    choiceLine \o "\nEstimated nutrition: " \o RoundText(summary.calories)
                        \o " kcal; " \o RoundText(summary.protein_g) \o "g protein, "
                        \o RoundText(summary.carbs_g) \o "g carbohydrates, "
                        \o RoundText(summary.fat_g) \o "g fats.\n" \o JsString(closing))

------------------------------------------------------------------------------
(* generateDietaryInfo, on MenuItems: the name a string, the description a
   string or absent, every other field a number or absent *)

\* the lower-case letter of each upper-case letter
LowerCaseOf ==
    LET upper == "ABCDEFGHIJKLMNOPQRSTUVWXYZ"
        lower == "abcdefghijklmnopqrstuvwxyz"
        Place(c) == CHOOSE i \in 1..26 : SubSeq(upper, i, i) = c
    IN  [c \in {SubSeq(upper, i, i) : i \in 1..26} |->
            SubSeq(lower, Place(c), Place(c))]

\* str.toLowerCase()
RECURSIVE ToLowerCase(_)
ToLowerCase(str) ==
    IF str = "" THEN ""
    ELSE LET c == SubSeq(str, 1, 1)
         IN  (IF c \in DOMAIN LowerCaseOf THEN LowerCaseOf[c] ELSE c)
                 \o ToLowerCase(SubSeq(str, 2, Len(str)))

\* text.includes(word)
Includes(text, word) ==
    \E i \in 1..(Len(text) - Len(word) + 1) : SubSeq(text, i, i + Len(word) - 1) = word

SeafoodWords ==
    <<"salmon", "fish", "shrimp", "tuna", "cod", "seafood", "mackerel", "sardine", "trout">>

MeatWords ==
    <<"chicken", "beef", "pork", "lamb", "turkey", "meat", "steak", "burger", "sausage">>

VegetableWords ==
    <<"salad", "vegetable", "broccoli", "spinach", "carrot", "tomato", "kale", "lettuce",
      "cucumber">>

GrainWords == <<"rice", "pasta", "bread", "quinoa", "oat", "noodle">>

DairyWords == <<"cheese", "milk", "yogurt", "cream", "butter", "dairy">>

FruitWords == <<"apple", "banana", "berry", "orange", "fruit", "grape">>

DessertWords == <<"cake", "cookie", "ice cream", "dessert", "sweet", "chocolate">>

\* includes(w1) || includes(w2) || ...
IncludesAny(text, words) == \E k \in 1..Len(words) : Includes(text, words[k])

\* x?.toLowerCase() || ''
LowerOrEmpty(v) == IF v.t = "string" THEN ToLowerCase(v.s) ELSE ""

\* `${name} ${description}`
CombinedText(item) == LowerOrEmpty(item.name) \o " " \o LowerOrEmpty(item.description)

\* the chain taken from its far end: the last category with a keyword in the text
KeywordCategoryLast(text) ==
    IF IncludesAny(text, DessertWords) THEN "desserts"
    ELSE IF IncludesAny(text, FruitWords) THEN "fruits"
    ELSE IF IncludesAny(text, DairyWords) THEN "dairy"
    ELSE IF IncludesAny(text, GrainWords) THEN "grains"
    ELSE IF IncludesAny(text, VegetableWords) THEN "vegetables"
    ELSE IF IncludesAny(text, MeatWords) THEN "meat"
    ELSE IF IncludesAny(text, SeafoodWords) THEN "seafood"
    ELSE "none"

\* the if / else if chain: the one counter an item increments
KeywordCategory(text) ==
    IF IncludesAny(text, SeafoodWords) THEN "seafood"
    ELSE IF IncludesAny(text, MeatWords) THEN "meat"
    ELSE IF IncludesAny(text, VegetableWords) THEN "vegetables"
    ELSE IF IncludesAny(text, GrainWords) THEN "grains"
    ELSE IF IncludesAny(text, DairyWords) THEN "dairy"
    ELSE IF IncludesAny(text, FruitWords) THEN "fruits"
    ELSE IF IncludesAny(text, DessertWords) THEN "desserts"
    ELSE "none"

IsVegetarian(text) == ~IncludesAny(text, MeatWords) /\ ~IncludesAny(text, SeafoodWords)

\* the dairy test turned round
IsVeganWithDairy(text) == IncludesAny(text, DairyWords)

\* the inner test, of an item found vegetarian
IsVegan(text) == ~IncludesAny(text, DairyWords)

\* calories <= 300 && protein >= 15 && fat <= 15
IsHealthy(item) ==
    /\ OrElse(item.calories, Whole(0)).n <= 2 * 300
    /\ OrElse(item.protein_g, Whole(0)).n >= 2 * 15
    /\ OrElse(item.fat_g, Whole(0)).n <= 2 * 15

\* what one pass of the loop body finds of an item
RECURSIVE Found(_)
Found(items) ==
    IF items = <<>> THEN <<>>
    ELSE LET item == items[Len(items)]
             text == CombinedText(item)
         IN  Append(Found(SubSeq(items, 1, Len(items) - 1)),
                    [category |-> KeywordCategory(text),
                     vegetarian |-> IsVegetarian(text),
                     vegan |-> IsVegetarian(text) /\ IsVegan(text),
                     healthy |-> IsHealthy(item),
                     highCalorie |-> OrElse(item.calories, Whole(0)).n >= 2 * 600,
                     highProtein |-> OrElse(item.protein_g, Whole(0)).n >= 2 * 25,
                     lowCalorie |-> OrElse(item.calories, Whole(0)).n <= 2 * 200])

\* the counters after items.forEach
Categories(items) ==
    LET found == Found(items)
        In(cat) == Cardinality({k \in 1..Len(found) : found[k].category = cat})
        Count(test) == Cardinality({k \in 1..Len(found) : found[k][test]})
    IN  [seafood |-> In("seafood"), meat |-> In("meat"), vegetarian |-> Count("vegetarian"),
         vegan |-> Count("vegan"), dairy |-> In("dairy"), grains |-> In("grains"),
         vegetables |-> In("vegetables"), fruits |-> In("fruits"),
         desserts |-> In("desserts"), healthy |-> Count("healthy"),
         highCalorie |-> Count("highCalorie"), highProtein |-> Count("highProtein"),
         lowCalorie |-> Count("lowCalorie")]

\* total += item.field || 0, over the items
RECURSIVE Total(_, _)
Total(items, field) ==
    IF items = <<>> THEN Whole(0)
    ELSE Plus(Total(SubSeq(items, 1, Len(items) - 1), field),
              OrElse(items[Len(items)][field], Whole(0)))

\* `${Math.round(total / totalItems)}`: 0 / 0 is NaN
RoundedAverage(sum, totalItems) ==
    IF totalItems = 0 \/ sum.t # "number" THEN "NaN"
    ELSE NumberToString(2 * ((sum.n + totalItems) \div (2 * totalItems)))

\* gbp(totalPrice / totalItems): the quotient to the nearest penny, a half
\* penny upwards; NaN is no price
AveragePrice(sum, totalItems) ==
    IF totalItems = 0 \/ sum.t # "number" THEN "-"
    ELSE LET pence == (100 * sum.n + totalItems) \div (2 * totalItems)
         IN  "GBP" \o NatToString(pence \div 100) \o "."
                 \o Digit((pence % 100) \div 10) \o Digit(pence % 10)

\* count > 1 ? suffix : ''
Plural(count, suffix) == IF count > 1 THEN suffix ELSE ""

\* a sentence of dietaryNotes, added when its counter is positive
Mention(count, before, after, suffix) ==
    IF count > 0
    THEN before \o NatToString(count) \o after \o Plural(count, suffix) \o ". "
    ELSE ""

DietaryNotes(items, categories) ==
    LET totalItems == Len(items)
    IN  "This menu contains " \o NatToString(totalItems)
            \o " items with a diverse nutritional profile. "
            \o Mention(categories.seafood, "It includes ", " seafood option", "s")
            \o Mention(categories.meat, "There are ", " meat-based dish", "es")
            \o Mention(categories.vegetables, "Vegetable-focused options include ", " item", "s")
            \o Mention(categories.grains, "Grain-based dishes: ", " option", "s")
            \o Mention(categories.vegetarian, "Vegetarian choices: ", " option", "s")
            \o Mention(categories.vegan, "Vegan-friendly: ", " choice", "s")
            \o Mention(categories.healthy, "Health-conscious options: ",
                       " low-calorie, high-protein item", "s")
            \o "Average nutrition per item: "
            \o RoundedAverage(Total(items, "calories"), totalItems) \o " calories, "
            \o RoundedAverage(Total(items, "protein_g"), totalItems) \o "g protein, "
            \o RoundedAverage(Total(items, "carbs_g"), totalItems) \o "g carbs, "
            \o RoundedAverage(Total(items, "fat_g"), totalItems) \o "g fat."

BudgetFriendly == "This is a budget-friendly menu with good value options. "

MidRange == "This is a mid-range menu with balanced pricing. "

Premium == "This is a premium menu with higher-end pricing. "

\* the tier taken from the average price
TierSentenceOfAverage(totalPrice, totalItems) ==
    IF totalPrice.t = "number" /\ totalPrice.n <= 2 * 50 * totalItems THEN BudgetFriendly
    ELSE IF totalPrice.t = "number" /\ totalPrice.n <= 2 * 100 * totalItems THEN MidRange
    ELSE Premium

\* totalPrice <= 50, totalPrice <= 100, else
TierSentence(totalPrice, totalItems) ==
    IF totalPrice.t = "number" /\ totalPrice.n <= 2 * 50 THEN BudgetFriendly
    ELSE IF totalPrice.t = "number" /\ totalPrice.n <= 2 * 100 THEN MidRange
    ELSE Premium

ClosingSentence(hunger) ==
    "For your "
        \o (IF hunger = "light" THEN "light hunger"
            ELSE IF hunger = "moderate" THEN "moderate appetite" ELSE "substantial hunger")
        \o ", you can create a balanced meal within your budget."

\* the tier taken from half the total when very hungry
BudgetStrategyByHunger(items, hunger) ==
    LET totalItems == Len(items)
        totalPrice == Total(items, "price")
        scaled == IF hunger = "very" THEN Num(totalPrice.n \div 2) ELSE totalPrice
    IN  "The menu offers " \o NatToString(totalItems) \o " items with an average price of "
            \o AveragePrice(totalPrice, totalItems) \o ". "
            \o TierSentence(scaled, totalItems)
            \o ClosingSentence(hunger)

BudgetStrategy(items, hunger) ==
    LET totalItems == Len(items)
        totalPrice == Total(items, "price")
    IN  "The menu offers " \o NatToString(totalItems) \o " items with an average price of "
            \o AveragePrice(totalPrice, totalItems) \o ". "
            \o TierSentence(totalPrice, totalItems)
            \o ClosingSentence(hunger)

\* !items || items.length === 0, for an array of only the absent kind
NoItemsAbsent(items) == ~IsArray(items)

\* !items || items.length === 0
NoItems(items) == ~IsArray(items) \/ Len(items.a) = 0

generateDietaryInfo(items, hunger) ==
    IF NoItems(items)
    THEN [done |-> TRUE,
          dietaryNotes |-> "No menu items available for analysis.",
          budgetStrategy |-> "Unable to provide budget strategy without menu data.",
          categories |-> Categories(<<>>)]
    ELSE LET categories == Categories(items.a)
         IN  [done |-> TRUE,
              dietaryNotes |-> DietaryNotes(items.a, categories),
              budgetStrategy |-> BudgetStrategy(items.a, hunger),
              categories |-> categories]

------------------------------------------------------------------------------
(* Inputs *)

SeqsUpTo(S, n) == UNION {[1..k -> S] : k \in 0..n}

\* the items of runDevTests, and the item of a menu whose calories and macros disagree
GrilledChicken ==
    Item(Str("Grilled Chicken"), Undef, Whole(12), Whole(450), Whole(45), Whole(10), Whole(12))

Cheesecake ==
    Item(Str("Cheesecake"), Undef, Whole(6), Whole(650), Whole(6), Whole(60), Whole(40))

SalmonSalad ==
    Item(Str("Salmon Salad"), Undef, Whole(13), Whole(420), Whole(35), Whole(12), Whole(18))

Overstated ==
    Item(Undef, Undef, Undef, Whole(900), Whole(10), Whole(10), Whole(5))

\* one raw item of a model response: every field absent, null, or of either type
RawItems ==
    {Item(nm, ds, pr, cal, p, c, f) :
        nm \in {Undef, Str(""), Str("Soup")},
        ds \in {Undef, Str("hot")},
        pr \in {Undef, Null, Num(25), Str("GBP 12")},
        cal \in {Undef, Whole(-10), Whole(48), Whole(100), Whole(101), Whole(105), Whole(250)},
        p \in {Undef, Whole(10)},
        c \in {Null, Whole(15)},
        f \in {Undef, Num(1), Whole(12)}}

ItemKinds == {GrilledChicken, Cheesecake, Overstated}

RawRanks ==
    {NotArr("undefined"), NotArr("null"), NotArr("string")}
    \cup {Arr(r) : r \in SeqsUpTo({Whole(i) : i \in -1..MaxItems}, MaxItems + 1)}

LeanCombo == Combo(Str("Lean"), Arr(<<Whole(0), Whole(1)>>), Str("protein"))

RawExtras ==
    {[combos |-> NotArr("undefined"), notes |-> Undef],
     [combos |-> Arr(<<LeanCombo>>), notes |-> Str("estimated")]}

Raw(its, rank, extra) ==
    [items |-> its, health_rank |-> rank, combos |-> extra.combos, notes |-> extra.notes]

\* a response of one item, its fields of every kind
OneItemResponses ==
    {Raw(Arr(<<it>>), rank, extra) :
        it \in RawItems,
        rank \in {NotArr("undefined"), Arr(<<Whole(0)>>), Arr(<<Whole(1)>>)},
        extra \in RawExtras}

\* a response of up to MaxItems well-typed items, its health_rank of every kind
RankedResponses ==
    {Raw(Arr(its), rank, [combos |-> Arr(<<>>), notes |-> Str("")]) :
        its \in SeqsUpTo(ItemKinds, MaxItems), rank \in RawRanks}

\* a response without a usable items array: '{}' (the content analyseMenu
\* falls back to), items null or a string, and an items array holding null
MalformedResponses ==
    {Raw(its, rank, extra) :
        its \in {NotArr("undefined"), NotArr("null"), NotArr("string"),
                 Arr(<<NoItem("null")>>), Arr(<<GrilledChicken, NoItem("null")>>)},
        rank \in {NotArr("undefined"), Arr(<<Whole(0)>>)},
        extra \in RawExtras}

Responses == OneItemResponses \cup RankedResponses \cup MalformedResponses

------------------------------------------------------------------------------
(* Specification of the validator: a parsed response is validated, and the
   result validated again *)

\* the component's state as useState initialises it, nothing rendered from it
StateIdle ==
    /\ imageUri = Null
    /\ imageBase64 = Null
    /\ analysisOf = Null
    /\ loading = FALSE
    /\ error = Null
    /\ calls = {}
    /\ speaking = FALSE

RenderIdle ==
    /\ explanation = [done |-> FALSE]
    /\ dietary = [done |-> FALSE]
    /\ dietItems = NotArr("undefined")

AppIdle ==
    /\ StateIdle
    /\ analysis = Null
    /\ hungerLevel = "moderate"
    /\ RenderIdle

HelpersIdle ==
    /\ menu = <<>>
    /\ hpc = "idle"
    /\ scores = <<>>
    /\ order = <<>>
    /\ indices = <<>>
    /\ total = Whole(0)
    /\ macros = ZeroMacros

Init ==
    /\ parsed \in Responses
    /\ pc = "parsed"
    /\ validated = Returned(NoAnalysis)
    /\ revalidated = Returned(NoAnalysis)
    /\ HelpersIdle
    /\ AppIdle

Validate ==
    /\ pc = "parsed"
    /\ validated' = validateMenuData(parsed)
    /\ parsed' = InputAfter(parsed)
    /\ pc' = "validated"
    /\ UNCHANGED revalidated
    /\ UNCHANGED helperVars
    /\ UNCHANGED appVars

Revalidate ==
    /\ pc = "validated"
    /\ ~validated.threw
    /\ revalidated' = validateMenuData(validated.value)
    /\ validated' = [validated EXCEPT !.value = InputAfter(validated.value)]
    /\ pc' = "revalidated"
    /\ UNCHANGED parsed
    /\ UNCHANGED helperVars
    /\ UNCHANGED appVars

Next == Validate \/ Revalidate

Spec == Init /\ [][Next]_vars

------------------------------------------------------------------------------
(* Specification of scoreItem and rankItems: a menu of typed MenuItems (a
   nutrition field is a number or absent) is scored item by item, then ranked *)

ValidatorIdle ==
    /\ parsed = Raw(NotArr("undefined"), NotArr("undefined"),
                    [combos |-> NotArr("undefined"), notes |-> Undef])
    /\ pc = "idle"
    /\ validated = Returned(NoAnalysis)
    /\ revalidated = Returned(NoAnalysis)

\* every nutrition field present or absent, and the three items of runDevTests
MenuItems ==
    {Item(Str("Dish"), Undef, Undef, cal, p, c, f) :
        cal \in {Undef, Whole(400)},
        p \in {Undef, Whole(30)},
        c \in {Undef, Whole(10)},
        f \in {Undef, Whole(10)}}
    \cup {GrilledChicken, Cheesecake, SalmonSalad}

RankInit ==
    /\ menu \in SeqsUpTo(MenuItems, MaxMenu)
    /\ hpc = "menu"
    /\ scores = <<>>
    /\ order = <<>>
    /\ indices = <<>>
    /\ total = Whole(0)
    /\ macros = ZeroMacros
    /\ ValidatorIdle
    /\ AppIdle

Score ==
    /\ hpc = "menu"
    /\ scores' = [k \in 1..Len(menu) |-> scoreItem(menu[k])]
    /\ hpc' = "scored"
    /\ UNCHANGED <<menu, order, indices, total, macros>>
    /\ UNCHANGED validateVars
    /\ UNCHANGED appVars

Rank ==
    /\ hpc = "scored"
    /\ order' = rankItems(menu)
    /\ hpc' = "ranked"
    /\ UNCHANGED <<menu, scores, indices, total, macros>>
    /\ UNCHANGED validateVars
    /\ UNCHANGED appVars

RankNext == Score \/ Rank

RankSpec == RankInit /\ [][RankNext]_vars

------------------------------------------------------------------------------
(* Specification of sumPrice and sumMacros: the sums of a menu over a
   sequence of indices, in range or not, repeated or not *)

\* a dish with nothing but its name
Bare == Item(Str("Water"), Undef, Undef, Undef, Undef, Undef, Undef)

\* a dish with a price and macros that are not whole numbers
Fractional == Item(Str("Olives"), Undef, Num(7), Num(91), Num(1), Num(3), Num(9))

PricedItems == {GrilledChicken, Cheesecake, SalmonSalad, Bare, Fractional}

IndexSeqs == SeqsUpTo({Whole(i) : i \in -1..MaxItems}, MaxIndices)

SumInit ==
    /\ menu \in SeqsUpTo(PricedItems, MaxItems)
    /\ hpc = "menu"
    /\ scores = <<>>
    /\ order = <<>>
    /\ indices = <<>>
    /\ total = Whole(0)
    /\ macros = ZeroMacros
    /\ ValidatorIdle
    /\ AppIdle

Sum(idxs) ==
    /\ hpc = "menu"
    /\ indices' = idxs
    /\ total' = sumPrice(menu, idxs)
    /\ macros' = sumMacros(menu, idxs)
    /\ hpc' = "summed"
    /\ UNCHANGED <<menu, scores, order>>
    /\ UNCHANGED validateVars
    /\ UNCHANGED appVars

SumNext == \E idxs \in IndexSeqs : Sum(idxs)

SumSpec == SumInit /\ [][SumNext]_vars

\* the same sums over items as a model response may hold them: a field null,
\* a price or a calorie count given as text, and a place holding no item
NullFields == Item(Str("Soup"), Undef, Null, Null, Undef, Null, Undef)

TextPrice == Item(Str("Catch"), Undef, Str("GBP 12"), Str("high"), Whole(20), Undef, Whole(5))

LooseItems == {GrilledChicken, NullFields, TextPrice, NoItem("null")}

LooseSumInit ==
    /\ menu \in SeqsUpTo(LooseItems, MaxItems)
    /\ hpc = "menu"
    /\ scores = <<>>
    /\ order = <<>>
    /\ indices = <<>>
    /\ total = Whole(0)
    /\ macros = ZeroMacros
    /\ ValidatorIdle
    /\ AppIdle

LooseSumSpec == LooseSumInit /\ [][SumNext]_vars

------------------------------------------------------------------------------
(* Specification of the sums over a validated analysis: a response is
   validated, then sumPrice and sumMacros run over the items returned *)

\* an item whose price and calories are below zero
Refund == Item(Str("Voucher"), Undef, Whole(-5), Whole(-10), Undef, Null, Whole(2))

RefundResponses ==
    {Raw(Arr(its), NotArr("undefined"), [combos |-> NotArr("undefined"), notes |-> Undef]) :
        its \in SeqsUpTo({GrilledChicken, Refund, NullFields}, MaxItems)}

ValidatedSumInit ==
    /\ parsed \in RefundResponses
    /\ pc = "parsed"
    /\ validated = Returned(NoAnalysis)
    /\ revalidated = Returned(NoAnalysis)
    /\ HelpersIdle
    /\ AppIdle

SumValidated(idxs) ==
    /\ pc = "validated"
    /\ ~validated.threw
    /\ hpc = "idle"
    /\ menu' = validated.value.items.a
    /\ indices' = idxs
    /\ total' = sumPrice(validated.value.items.a, idxs)
    /\ macros' = sumMacros(validated.value.items.a, idxs)
    /\ hpc' = "summed"
    /\ UNCHANGED <<scores, order>>
    /\ UNCHANGED validateVars
    /\ UNCHANGED appVars

ValidatedSumNext == Validate \/ \E idxs \in IndexSeqs : SumValidated(idxs)

ValidatedSumSpec == ValidatedSumInit /\ [][ValidatedSumNext]_vars

------------------------------------------------------------------------------
(* Specification of the explanation text: the memo is computed from an
   analysis as validateMenuData returns it, or from no analysis *)

\* a combo without item_indices, and one whose indices leave the items
NoIndicesCombo == Combo(Str("Chef's choice"), NotArr("undefined"), Undef)

FarCombo == Combo(Str("Feast"), Arr(<<Whole(0), Whole(MaxItems)>>), Str(""))

ExplainCombos ==
    {NotArr("undefined"), NotArr("null"), Arr(<<>>),
     Arr(<<NoCombo("null")>>), Arr(<<LeanCombo>>), Arr(<<NoIndicesCombo>>),
     Arr(<<FarCombo, LeanCombo>>)}

ExplainRanks ==
    {NotArr("undefined"), Arr(<<Null>>), Arr(<<Num(1)>>), Arr(<<Whole(0)>>),
     Arr(<<Whole(1), Whole(0)>>)}

ExplainResponses ==
    {Raw(Arr(its), rank, [combos |-> cs, notes |-> nt]) :
        its \in SeqsUpTo({GrilledChicken, Cheesecake, Fractional}, MaxItems),
        rank \in ExplainRanks, cs \in ExplainCombos, nt \in {Undef, Str("estimated")}}

\* what analyseMenu installs for a response
Analyses(responses) ==
    {validateMenuData(r).value : r \in {q \in responses : ~validateMenuData(q).threw}}

ExplainInit ==
    /\ analysis \in {Null} \cup Analyses(ExplainResponses)
    /\ hungerLevel = "moderate"
    /\ StateIdle
    /\ RenderIdle
    /\ HelpersIdle
    /\ ValidatorIdle

Explain ==
    /\ ~explanation.done
    /\ explanation' = explanationText(analysis)
    /\ UNCHANGED <<stateVars, dietary, dietItems>>
    /\ UNCHANGED validateVars
    /\ UNCHANGED helperVars

ExplainNext == Explain

ExplainSpec == ExplainInit /\ [][ExplainNext]_vars

------------------------------------------------------------------------------
(* Specification of the screen: the held image, the analysis, the loading
   flag and the error of the component, changed by the Capture, Upload,
   Delete and Analyze buttons and by the asynchronous calls these start.
   calls is the set of calls that have started and not yet finished;
   analysisOf records the image data the held analysis was computed from. *)

VISION_MODELS == <<"gpt-4o", "gpt-4-vision-preview", "gpt-4o-mini">>

Photos == 1..MaxPhotos

\* asset.uri and asset.base64 of a photo
Uri(ph) == Str("file:menu" \o Digit(ph))

Base64(ph) == Str("jpeg" \o Digit(ph))

\* a started call: a picker, or analyseMenu with the image data it closed
\* over, the position of its loop and its lastError
PickerCall(op) == [op |-> op, image |-> Null, model |-> 0, lastError |-> Null]

AnalyseCall(data) == [op |-> "analyseMenu", image |-> data, model |-> 1, lastError |-> Null]

\* the contents a model may answer with: a one-item menu, a menu whose
\* calories get repaired, a ranked menu, and '{}'
AppResponses ==
    {Raw(Arr(<<GrilledChicken>>), NotArr("undefined"),
         [combos |-> Arr(<<>>), notes |-> Str("estimated")]),
     Raw(Arr(<<Overstated, Cheesecake>>), Arr(<<Whole(1), Whole(0)>>),
         [combos |-> Arr(<<LeanCombo>>), notes |-> Undef]),
     Raw(NotArr("undefined"), NotArr("undefined"),
         [combos |-> NotArr("undefined"), notes |-> Undef])}

\* the messages of a model that failed: HTTP error, unparsable content,
\* fetch rejected with a message and with an empty one
FailureMessages ==
    {Str("OpenAI error 500: "), Str("Invalid response format from OpenAI API"),
     Str("Network request failed"), Str("")}

\* e.message of a validateMenuData that threw inside the loop
ValidationMessage == Str("Cannot read properties of undefined (reading 'map')")

AppInit ==
    /\ AppIdle
    /\ HelpersIdle
    /\ ValidatorIdle

\* pickImage and uploadImage up to their first await
StartPicker(op) ==
    /\ error' = Null
    /\ calls' = calls \cup {PickerCall(op)}
    /\ UNCHANGED <<imageUri, imageBase64, analysis, analysisOf, loading, hungerLevel, speaking>>
    /\ UNCHANGED <<renderVars, validateVars, helperVars>>

\* the rest of a picker: permission refused, the import or the picker
\* rejected, the picker cancelled, or an asset returned with or without base64
FinishPicker(op, refusal, failure) ==
    /\ PickerCall(op) \in calls
    /\ calls' = calls \ {PickerCall(op)}
    /\ \/ /\ error' = Str(refusal)
          /\ UNCHANGED <<imageUri, imageBase64, analysis, analysisOf>>
       \/ /\ error' = Str(failure)
          /\ UNCHANGED <<imageUri, imageBase64, analysis, analysisOf>>
       \/ UNCHANGED <<error, imageUri, imageBase64, analysis, analysisOf>>
       \/ \E ph \in Photos : \E data \in {Null, Base64(ph)} :
            /\ imageUri' = Uri(ph)
            /\ imageBase64' = data
            /\ analysis' = Null
            /\ analysisOf' = Null
            /\ UNCHANGED error
    /\ UNCHANGED <<loading, hungerLevel, speaking>>
    /\ UNCHANGED <<renderVars, validateVars, helperVars>>

\* the Capture button: never disabled
PickImage == StartPicker("pickImage")

PickImageReturns ==
    FinishPicker("pickImage", "Camera permission is required.",
                 "Image picker failed to load. In web sandbox, try mock analysis.")

\* the Upload button: never disabled
UploadImage == StartPicker("uploadImage")

UploadImageReturns ==
    FinishPicker("uploadImage", "Media library permission is required.",
                 "Image picker failed to load.")

\* the Delete button, shown while an image is held
DeleteImage ==
    /\ Truthy(imageUri)
    /\ imageUri' = Null
    /\ imageBase64' = Null
    /\ analysis' = Null
    /\ analysisOf' = Null
    /\ UNCHANGED <<loading, error, calls, hungerLevel, speaking>>
    /\ UNCHANGED <<renderVars, validateVars, helperVars>>

\* analyseMenu up to its first fetch: the two guards, whose messages are set
\* before anything else is touched, then loading, error and the first request
analyseMenuLoadingFirst(key) ==
    /\ loading' = TRUE
    /\ IF ~Truthy(imageBase64)
       THEN /\ error' = Str("No image data found - try again and allow base64.")
            /\ UNCHANGED calls
       ELSE IF ~key
       THEN /\ error' = Str("OpenAI API key not configured. Please contact support.")
            /\ UNCHANGED calls
       ELSE /\ error' = Null
            /\ calls' = calls \cup {AnalyseCall(imageBase64)}
    /\ UNCHANGED <<imageUri, imageBase64, analysis, analysisOf, hungerLevel, speaking>>
    /\ UNCHANGED <<renderVars, validateVars, helperVars>>

analyseMenu(key) ==
    /\ IF ~Truthy(imageBase64)
       THEN /\ error' = Str("No image data found - try again and allow base64.")
            /\ UNCHANGED <<loading, calls>>
       ELSE IF ~key
       THEN /\ error' = Str("OpenAI API key not configured. Please contact support.")
            /\ UNCHANGED <<loading, calls>>
       ELSE /\ loading' = TRUE
            /\ error' = Null
            /\ calls' = calls \cup {AnalyseCall(imageBase64)}
    /\ UNCHANGED <<imageUri, imageBase64, analysis, analysisOf, hungerLevel, speaking>>
    /\ UNCHANGED <<renderVars, validateVars, helperVars>>

\* the Analyze button, disabled without an image or while loading; the key
\* may or may not resolve
AnalyseMenu ==
    /\ Truthy(imageUri) /\ Truthy(imageBase64) /\ ~loading
    /\ \E key \in BOOLEAN : analyseMenu(key)

\* the loop moving on by two models
NextModelSkipping(m) == m + 2

\* for (const model of VISION_MODELS): the model after the m-th
NextModel(m) == m + 1

\* setError(e.message || 'Something went wrong.')
Reported(message) == OrElse(message, Str("Something went wrong."))

\* the outer catch clearing the analysis as well
FailModelClearing(c, err) ==
    /\ IF c.model < Len(VISION_MODELS)
       THEN /\ calls' = (calls \ {c}) \cup {[c EXCEPT !.model = NextModel(@), !.lastError = err]}
            /\ UNCHANGED <<error, loading, analysis, analysisOf>>
       ELSE /\ calls' = calls \ {c}
            /\ error' = Reported(err)
            /\ loading' = FALSE
            /\ analysis' = Null
            /\ analysisOf' = Null
    /\ UNCHANGED <<imageUri, imageBase64, hungerLevel, speaking>>
    /\ UNCHANGED <<renderVars, validateVars, helperVars>>

\* the call ending without its finally block
FailModelNoFinally(c, err) ==
    /\ IF c.model < Len(VISION_MODELS)
       THEN /\ calls' = (calls \ {c}) \cup {[c EXCEPT !.model = NextModel(@), !.lastError = err]}
            /\ UNCHANGED <<error, loading>>
       ELSE /\ calls' = calls \ {c}
            /\ error' = Reported(err)
            /\ UNCHANGED loading
    /\ UNCHANGED <<imageUri, imageBase64, analysis, analysisOf, hungerLevel, speaking>>
    /\ UNCHANGED <<renderVars, validateVars, helperVars>>

\* lastError = e; continue: the next model is tried, and after the last
\* one lastError is thrown to the outer catch and finally
FailModel(c, err) ==
    /\ IF c.model < Len(VISION_MODELS)
       THEN /\ calls' = (calls \ {c}) \cup {[c EXCEPT !.model = NextModel(@), !.lastError = err]}
            /\ UNCHANGED <<error, loading>>
       ELSE /\ calls' = calls \ {c}
            /\ error' = Reported(err)
            /\ loading' = FALSE
    /\ UNCHANGED <<imageUri, imageBase64, analysis, analysisOf, hungerLevel, speaking>>
    /\ UNCHANGED <<renderVars, validateVars, helperVars>>

\* the request of the current model fails
ModelFails(c) ==
    /\ c \in calls /\ c.op = "analyseMenu"
    /\ \E err \in FailureMessages : FailModel(c, err)

\* the argument of setAnalysis, as the response gave it
InstalledRaw(response) == response

\* the argument of setAnalysis
Installed(response) == validateMenuData(response).value

\* the current model answers with JSON: validateMenuData throws, which the
\* loop catches as a failure of the model, or its result is installed
ModelAnswers(c, response) ==
    /\ c \in calls /\ c.op = "analyseMenu"
    /\ IF validateMenuData(response).threw
       THEN FailModel(c, ValidationMessage)
       ELSE /\ analysis' = Installed(response)
            /\ analysisOf' = c.image
            /\ error' = Null
            /\ loading' = FALSE
            /\ calls' = calls \ {c}
            /\ UNCHANGED <<imageUri, imageBase64, hungerLevel, speaking>>
            /\ UNCHANGED <<renderVars, validateVars, helperVars>>

AppNext ==
    \/ PickImage
    \/ PickImageReturns
    \/ UploadImage
    \/ UploadImageReturns
    \/ DeleteImage
    \/ AnalyseMenu
    \/ \E c \in calls : ModelFails(c)
    \/ \E c \in calls, response \in AppResponses : ModelAnswers(c, response)

AppSpec == AppInit /\ [][AppNext]_vars

\* the request in flight returns: fetch resolves or rejects
RequestReturns ==
    \E c \in calls :
        \/ ModelFails(c)
        \/ \E response \in AppResponses : ModelAnswers(c, response)

\* the screen under the assumption that each network request eventually returns
AppLiveSpec == AppSpec /\ WF_vars(RequestReturns)

------------------------------------------------------------------------------
(* Specification of analyseMenu called as a function: the component holds
   no image, an image without base64 data, or an image with it, with or
   without an earlier analysis and error, and the call is made with a key
   that resolves or does not *)

Held ==
    {<<Null, Null>>}
    \cup {<<Uri(ph), Null>> : ph \in Photos}
    \cup {<<Uri(ph), Base64(ph)>> : ph \in Photos}

CallInit ==
    /\ \E held \in Held :
         /\ imageUri = held[1]
         /\ imageBase64 = held[2]
    /\ \E response \in {r \in AppResponses : ~validateMenuData(r).threw} :
         \/ analysis = Null /\ analysisOf = Null
         \/ Truthy(imageBase64) /\ analysis = Installed(response) /\ analysisOf = imageBase64
    /\ error \in {Null, Str("Camera permission is required.")}
    /\ loading = FALSE
    /\ calls = {}
    /\ hungerLevel = "moderate"
    /\ speaking = FALSE
    /\ RenderIdle
    /\ HelpersIdle
    /\ ValidatorIdle

\* one call at a time
CallAnalyseMenu ==
    /\ calls = {}
    /\ \E key \in BOOLEAN : analyseMenu(key)

CallNext ==
    \/ CallAnalyseMenu
    \/ \E c \in calls : ModelFails(c)
    \/ \E c \in calls, response \in AppResponses : ModelAnswers(c, response)

CallSpec == CallInit /\ [][CallNext]_vars

------------------------------------------------------------------------------
(* Specification of speak: the Hear Recommendations button calls it with
   the explanation text of the held analysis; the call awaits the import of
   expo-av, the TTS request, the body of its response and the creation of
   the sound, and then playback reports its status to the callback *)

SpeakSteps == <<"import", "fetch", "arrayBuffer", "createAsync", "playback">>

Playback == Len(SpeakSteps)

\* a started speak call and the step it is waiting for
SpeakCall(step) == [op |-> "speak", step |-> step]

\* the messages each awaited step can fail with; the fetch also by a
\* response that is not ok
SpeakFailures ==
    <<{Str("Cannot find module 'expo-av'")},
      {Str("Network request failed"), Str("TTS error 401: ")},
      {Str("")},
      {Str("Player does not exist.")}>>

SpeakInit == CallInit

\* the argument of the button's call
SpokenText == explanationText(analysis).text

\* speak up to its first await
speak(key, text) ==
    /\ IF ~key \/ text = ""
       THEN UNCHANGED <<speaking, calls>>
       ELSE /\ speaking' = TRUE
            /\ calls' = calls \cup {SpeakCall(1)}
    /\ UNCHANGED <<imageUri, imageBase64, analysis, analysisOf, loading, error, hungerLevel>>
    /\ UNCHANGED <<renderVars, validateVars, helperVars>>

\* the button, disabled while speaking; the key is resolved again by the call
HearRecommendations ==
    /\ ~speaking
    /\ \E key \in BOOLEAN : speak(key, SpokenText)

\* an awaited step resolves; after createAsync the callback is registered
AwaitResolves(c) ==
    /\ c \in calls /\ c.op = "speak" /\ c.step < Playback
    /\ calls' = (calls \ {c}) \cup {SpeakCall(c.step + 1)}
    /\ UNCHANGED <<imageUri, imageBase64, analysis, analysisOf, loading, error, hungerLevel, speaking>>
    /\ UNCHANGED <<renderVars, validateVars, helperVars>>

\* an awaited step rejects, or the TTS response is not ok: the catch block
AwaitRejects(c) ==
    /\ c \in calls /\ c.op = "speak" /\ c.step < Playback
    /\ \E message \in SpeakFailures[c.step] :
         error' = OrElse(message, Str("TTS failed"))
    /\ speaking' = FALSE
    /\ calls' = calls \ {c}
    /\ UNCHANGED <<imageUri, imageBase64, analysis, analysisOf, loading, hungerLevel>>
    /\ UNCHANGED <<renderVars, validateVars, helperVars>>

\* the callback receives a status with didJustFinish true
PlaybackFinishes(c) ==
    /\ c \in calls /\ c.op = "speak" /\ c.step = Playback
    /\ speaking' = FALSE
    /\ calls' = calls \ {c}
    /\ UNCHANGED <<imageUri, imageBase64, analysis, analysisOf, loading, error, hungerLevel>>
    /\ UNCHANGED <<renderVars, validateVars, helperVars>>

\* the callback receives the status of a fatal playback error, which has
\* no didJustFinish: nothing is set, and no further status follows
PlaybackFails(c) ==
    /\ c \in calls /\ c.op = "speak" /\ c.step = Playback
    /\ calls' = calls \ {c}
    /\ UNCHANGED <<imageUri, imageBase64, analysis, analysisOf, loading, error, hungerLevel, speaking>>
    /\ UNCHANGED <<renderVars, validateVars, helperVars>>

AwaitReturns == \E c \in calls : AwaitResolves(c) \/ AwaitRejects(c)

PlaybackEnds == \E c \in calls : PlaybackFinishes(c) \/ PlaybackFails(c)

SpeakNext ==
    \/ HearRecommendations
    \/ \E c \in calls : AwaitResolves(c)
    \/ \E c \in calls : AwaitRejects(c)
    \/ \E c \in calls : PlaybackFinishes(c)
    \/ \E c \in calls : PlaybackFails(c)

\* every awaited step eventually returns and playback eventually finishes or fails
SpeakSpec ==
    /\ SpeakInit
    /\ [][SpeakNext]_vars
    /\ WF_vars(AwaitReturns)
    /\ WF_vars(PlaybackEnds)

------------------------------------------------------------------------------
(* Specification of the dietary summary: generateDietaryInfo is computed
   from a list of MenuItems when the summary is rendered, and again when
   a hunger level is chosen *)

HungerLevels == {"light", "moderate", "very"}

\* dishes whose texts meet the keywords in several ways: in two categories
\* (Salmon Salad, Cheesecake), in upper case, across name and description
\* ("ice" + "cream"), inside another word ("oat" in "goat"), and not at all
GardenBowl ==
    Item(Str("Garden Bowl"), Str("Kale, QUINOA and tomato"),
         Whole(25), Whole(280), Whole(16), Whole(30), Whole(9))

VanillaIce ==
    Item(Str("Vanilla Ice"), Str("Cream on top"), Num(101), Whole(210), Whole(4), Whole(24), Whole(11))

GoatStew == Item(Str("Goat Stew"), Undef, Whole(50), Whole(520), Whole(38), Whole(20), Whole(30))

TastingMenu == Item(Str("Tasting Menu"), Str("five courses"), Undef, Undef, Undef, Undef, Undef)

DietItems ==
    {SalmonSalad, Cheesecake, GrilledChicken, GardenBowl, VanillaIce, GoatStew,
     TastingMenu}

DietInit ==
    /\ dietItems \in {NotArr("undefined")} \cup {Arr(m) : m \in SeqsUpTo(DietItems, MaxItems)}
    /\ dietary = [done |-> FALSE]
    /\ explanation = [done |-> FALSE]
    /\ hungerLevel = "moderate"
    /\ analysis = Null
    /\ StateIdle
    /\ HelpersIdle
    /\ ValidatorIdle

\* the render of the summary
RenderDietary ==
    /\ ~dietary.done
    /\ dietary' = generateDietaryInfo(dietItems, hungerLevel)
    /\ UNCHANGED <<stateVars, explanation, dietItems>>
    /\ UNCHANGED <<validateVars, helperVars>>

\* a hunger button, and the render that follows
SetHungerLevel(level) ==
    /\ dietary.done
    /\ hungerLevel' = level
    /\ dietary' = generateDietaryInfo(dietItems, level)
    /\ UNCHANGED <<imageUri, imageBase64, analysis, analysisOf, loading, error, calls, speaking>>
    /\ UNCHANGED <<explanation, dietItems>>
    /\ UNCHANGED <<validateVars, helperVars>>

DietNext == RenderDietary \/ \E level \in HungerLevels : SetHungerLevel(level)

DietSpec == DietInit /\ [][DietNext]_vars

------------------------------------------------------------------------------
(* Claims about validateMenuData *)

\* the value of a field as a number, 0 when the field holds no number
NumberOrZero(v) == IF v.t = "number" THEN v.n ELSE 0

\* r holds each of the indices 0..n-1 exactly once and nothing else
IsPermutation(r, n) ==
    /\ Len(r) = n
    /\ \A i \in 0..(n - 1) : Cardinality({k \in 1..Len(r) : r[k] = Whole(i)}) = 1

HasReturned == pc \in {"validated", "revalidated"} /\ ~validated.threw

RawItem(k) == parsed.items.a[k]

OutItem(k) == validated.value.items.a[k]

OutCount == Len(validated.value.items.a)

\* C1: whatever the raw health_rank is, the health_rank validateMenuData
\* returns holds every index of items exactly once and nothing else.
C1_HealthRankIsPermutation ==
    HasReturned => IsPermutation(validated.value.health_rank.a, OutCount)

\* C2: validateMenuData returns an Analysis for every raw input, also for one
\* with no items field or with items that is no sequence; it never throws.
C2_ValidateNeverThrows ==
    pc \in {"validated", "revalidated"} => ~validated.threw

\* C3: validating a validated Analysis again returns it unchanged: the same
\* items field by field, the same health_rank, combos and notes.
C3_ValidateIdempotent ==
    pc = "revalidated" => ~revalidated.threw /\ revalidated.value = validated.value

\* the first validation overwrote an item's calories and replaced the health_rank
C3_Witness ==
    /\ pc = "revalidated"
    /\ ~revalidated.threw
    /\ validated.value.health_rank # parsed.health_rank
    /\ \E k \in 1..OutCount :
          /\ RawItem(k).calories.t = "number"
          /\ OutItem(k).calories # RawItem(k).calories

NumericFields == {"price", "calories", "protein_g", "carbs_g", "fat_g"}

\* C4: after validation every item's name is a non-empty string, its
\* description a string, and each numeric field a number, 0 whenever the raw
\* value was absent, null or not a number.
C4_FieldsWellTyped ==
    HasReturned =>
        \A k \in 1..OutCount :
            /\ OutItem(k).name.t = "string" /\ OutItem(k).name.s # ""
            /\ OutItem(k).description.t = "string"
            /\ \A f \in NumericFields :
                  /\ OutItem(k)[f].t = "number"
                  /\ (RawItem(k)[f].t # "number" => OutItem(k)[f] = Whole(0))

\* expected calories of raw item k on the coerced macros, in halves
Expected(k) ==
    4 * NumberOrZero(RawItem(k).protein_g) + 4 * NumberOrZero(RawItem(k).carbs_g)
        + 9 * NumberOrZero(RawItem(k).fat_g)

Discrepant(k) ==
    LET cal == NumberOrZero(RawItem(k).calories)
        diff == IF Expected(k) >= cal THEN Expected(k) - cal ELSE cal - Expected(k)
    IN  cal > 0 /\ diff > 200

\* v is the whole number nearest to e halves, a tie going up
IsRounded(v, e) == v.t = "number" /\ v.n % 2 = 0 /\ v.n - 1 <= e /\ e < v.n + 1

\* C5: calories becomes round(4*protein + 4*carbs + 9*fat) exactly when the
\* coerced calories is > 0 and differs from that sum by more than 100; in every
\* other case it keeps its coerced value.
C5_CalorieRepair ==
    HasReturned =>
        \A k \in 1..OutCount :
            IF Discrepant(k)
            THEN IsRounded(OutItem(k).calories, Expected(k))
            ELSE OutItem(k).calories = Num(NumberOrZero(RawItem(k).calories))

\* calories was overwritten by a sum that is no whole number, rounded up
C5_Witness ==
    /\ HasReturned
    /\ \E k \in 1..OutCount :
          /\ Discrepant(k)
          /\ Expected(k) % 2 = 1
          /\ OutItem(k).calories.n = Expected(k) + 1

------------------------------------------------------------------------------
(* Claims about scoreItem and rankItems *)

\* the item the k-th place of the ranking names
Ranked(k) == (order[k].n \div 2) + 1

\* C6: rankItems returns a permutation of 0..items.length-1: the input's
\* length, no index dropped or duplicated (also among equal scores), and the
\* empty sequence for the empty sequence.
C6_RankIsPermutation ==
    hpc = "ranked" => IsPermutation(order, Len(menu))

\* two items of equal score were ranked
C6_Witness ==
    /\ hpc = "ranked"
    /\ Len(order) >= 2
    /\ \E i, j \in 1..Len(menu) : i # j /\ scores[i] = scores[j]

\* C7: the ranking is by score descending: an earlier place never holds a
\* lower score than a later one.
C7_RankDescending ==
    hpc = "ranked" =>
        \A i, j \in 1..Len(order) :
            i < j => scores[Ranked(i)] >= scores[Ranked(j)]

\* the menu of runDevTests: the cheesecake, second on the menu, is ranked last
C7_Witness ==
    /\ hpc = "ranked"
    /\ menu = <<GrilledChicken, Cheesecake, SalmonSalad>>
    /\ order[3] = Whole(1)
    /\ scores[2] < scores[1] /\ scores[2] < scores[3]

NutritionFields == {"calories", "protein_g", "carbs_g", "fat_g"}

\* C8: the score is 2*protein_g - 0.8*fat_g - 0.005*calories - 0.3*carbs_g, a
\* missing field counting as 0 (scores are in 1/2000, the fields in halves).
C8_ScoreFormula ==
    hpc \in {"scored", "ranked"} =>
        \A k \in 1..Len(menu) :
            scores[k] = 2000 * NumberOrZero(menu[k].protein_g)
                        - 800 * NumberOrZero(menu[k].fat_g)
                        - 5 * NumberOrZero(menu[k].calories)
                        - 300 * NumberOrZero(menu[k].carbs_g)

\* an item without carbs_g and one with every field were scored
C8_Witness ==
    /\ hpc = "scored"
    /\ \E i, j \in 1..Len(menu) :
          /\ menu[i].carbs_g = Undef /\ menu[i].protein_g.t = "number"
          /\ \A f \in NutritionFields : menu[j][f].t = "number"

\* items a and b agree on every nutrition field but f, where b has more
RaisedIn(a, b, f) ==
    /\ NumberOrZero(a[f]) < NumberOrZero(b[f])
    /\ \A g \in NutritionFields \ {f} : NumberOrZero(a[g]) = NumberOrZero(b[g])

\* C9: with the other fields fixed, more protein_g gives a higher score and
\* more fat_g, calories or carbs_g each a lower one.
C9_ScoreMonotone ==
    hpc \in {"scored", "ranked"} =>
        \A i, j \in 1..Len(menu) :
            /\ RaisedIn(menu[i], menu[j], "protein_g") => scores[i] < scores[j]
            /\ \A f \in {"fat_g", "calories", "carbs_g"} :
                  RaisedIn(menu[i], menu[j], f) => scores[i] > scores[j]

\* a menu with one pair of items differing in protein_g alone and one in fat_g alone
C9_Witness ==
    /\ hpc = "scored"
    /\ \E i, j, k \in 1..Len(menu) :
          /\ RaisedIn(menu[i], menu[j], "protein_g")
          /\ RaisedIn(menu[i], menu[k], "fat_g")

------------------------------------------------------------------------------
(* Claims about sumPrice and sumMacros *)

\* how often the in-range index i occurs in idxs
Occurrences(i, idxs) == Cardinality({k \in 1..Len(idxs) : idxs[k] = Whole(i)})

\* the sum of field f over the items, each counted as often as indices names it
RECURSIVE SumByItem(_, _)
SumByItem(f, n) ==
    IF n = 0 THEN 0
    ELSE SumByItem(f, n - 1) + Occurrences(n - 1, indices) * NumberOrZero(menu[n][f])

\* C10: sumPrice and sumMacros are the sums of price and of each macro over
\* the indices within 0..items.length-1, a repeated index counted each time; an
\* index out of range adds nothing, and no index gives 0 and the zero summary.
C10_SumsOverInRange ==
    hpc = "summed" =>
        /\ total = Num(SumByItem("price", Len(menu)))
        /\ \A f \in NutritionFields : macros[f] = Num(SumByItem(f, Len(menu)))
        /\ (indices = <<>> => total = Whole(0) /\ macros = ZeroMacros)

\* an index taken twice and an index out of range, over priced items
C10_Witness ==
    /\ hpc = "summed"
    /\ total.n > 0
    /\ \E a, b, c \in 1..Len(indices) :
          /\ a # b /\ indices[a] = indices[b]
          /\ NumberOrZero(At(menu, indices[a]).price) > 0
          /\ At(menu, indices[c]).t = "undefined"

\* C11: sumPrice and sumMacros always return numbers: a missing, null or
\* non-numeric field, a missing item and an index out of range each add exactly 0.
C11_SumsAreNumbers ==
    hpc = "summed" =>
        /\ total = Num(SumByItem("price", Len(menu)))
        /\ \A f \in NutritionFields : macros[f] = Num(SumByItem(f, Len(menu)))

\* C12: for every analysis validateMenuData returns, whatever its combos
\* and notes hold, computing the explanation text raises no error.
C12_ExplanationNeverThrows ==
    explanation.done => ~explanation.threw

\* C13: a held analysis was computed from the image currently held: a
\* capture, an upload or a deletion discards the analysis of the earlier
\* image, and no analyseMenu call started for an earlier image installs its
\* result afterwards.
C13_AnalysisOfHeldImage ==
    analysis # Null => analysisOf = imageBase64

\* C14: the analysis held is null or a value validateMenuData returned for
\* a response; no response is installed as parsed.
C14_AnalysisIsValidated ==
    analysis = Null \/ analysis \in Analyses(AppResponses)

C14_Witness ==
    /\ analysis # Null
    /\ analysis \in Analyses(AppResponses)
    /\ analysis \notin AppResponses
    /\ calls = {}

\* the items of the summary, their lower-cased texts, and how many of them pass a test
DietCount == IF IsArray(dietItems) THEN Len(dietItems.a) ELSE 0

RECURSIVE TextsOf(_)
TextsOf(items) ==
    IF items = <<>> THEN <<>>
    ELSE Append(TextsOf(SubSeq(items, 1, Len(items) - 1)), CombinedText(items[Len(items)]))

DietTexts == TextsOf(dietItems.a)

\* C15: on an empty or absent item list generateDietaryInfo returns the two
\* fixed no-data messages, whatever the hunger level.
C15_NoDataMessages ==
    (dietary.done /\ DietCount = 0) =>
        /\ dietary.dietaryNotes = "No menu items available for analysis."
        /\ dietary.budgetStrategy = "Unable to provide budget strategy without menu data."

C15_Witness ==
    /\ dietary.done
    /\ dietItems = Arr(<<>>)
    /\ hungerLevel = "very"

KeywordLists ==
    [seafood |-> SeafoodWords, meat |-> MeatWords, vegetables |-> VegetableWords,
     grains |-> GrainWords, dairy |-> DairyWords, fruits |-> FruitWords,
     desserts |-> DessertWords]

ChainOrder == <<"seafood", "meat", "vegetables", "grains", "dairy", "fruits", "desserts">>

\* C16 as stated: every keyword category counts each item whose text
\* contains at least one of its keywords, so an item with keywords of several
\* categories is counted in each.
C16_CategoriesOverlap ==
    dietary.done =>
        LET text == DietTexts
        IN  \A c \in DOMAIN KeywordLists :
                dietary.categories[c] =
                    Cardinality({k \in 1..DietCount : IncludesAny(text[k], KeywordLists[c])})

\* C16 amended: the keyword categories are mutually exclusive. An item is
\* counted in the first category, in the order seafood, meat, vegetables,
\* grains, dairy, fruits, desserts, one of whose keywords its text contains,
\* and in no other.
C16_FirstCategoryOnly ==
    dietary.done =>
        LET text == DietTexts
        IN  \A p \in 1..Len(ChainOrder) :
                dietary.categories[ChainOrder[p]] =
                    Cardinality({k \in 1..DietCount :
                        /\ IncludesAny(text[k], KeywordLists[ChainOrder[p]])
                        /\ \A q \in 1..(p - 1) :
                              ~IncludesAny(text[k], KeywordLists[ChainOrder[q]])})

\* a Salmon Salad and a Cheesecake summarised: each has keywords of two categories
C16_Witness ==
    /\ dietary.done
    /\ dietItems = Arr(<<SalmonSalad, Cheesecake>>)
    /\ dietary.categories.seafood = 1
    /\ dietary.categories.dairy = 1

\* C17: an item is counted vegetarian exactly when its text has no meat and
\* no seafood keyword, vegan exactly when it is vegetarian and has no dairy
\* keyword; so vegan <= vegetarian <= number of items.
C17_VegetarianAndVegan ==
    dietary.done =>
        LET text == DietTexts
            NoFlesh(k) == /\ \A w \in 1..Len(MeatWords) : ~Includes(text[k], MeatWords[w])
                          /\ \A w \in 1..Len(SeafoodWords) : ~Includes(text[k], SeafoodWords[w])
            NoDairy(k) == \A w \in 1..Len(DairyWords) : ~Includes(text[k], DairyWords[w])
        IN  /\ dietary.categories.vegetarian =
                    Cardinality({k \in 1..DietCount : NoFlesh(k)})
            /\ dietary.categories.vegan =
                    Cardinality({k \in 1..DietCount : NoFlesh(k) /\ NoDairy(k)})
            /\ dietary.categories.vegan <= dietary.categories.vegetarian
            /\ dietary.categories.vegetarian <= DietCount

\* a meat dish without dairy, a vegetarian dish with dairy and a vegan dish
C17_Witness ==
    /\ dietary.done
    /\ DietCount = 2
    /\ dietary.categories.vegan = 0
    /\ dietary.categories.vegetarian = 1
    /\ \E k \in 1..DietCount :
         ~IncludesAny(DietTexts[k], DairyWords) /\ IncludesAny(DietTexts[k], MeatWords)

\* the sum of the prices in halves, a missing price counting 0
RECURSIVE PriceSumOf(_)
PriceSumOf(k) ==
    IF k = 0 THEN 0 ELSE PriceSumOf(k - 1) + NumberOrZero(dietItems.a[k].price)

PriceSum == PriceSumOf(DietCount)

\* C18: for a non-empty list the tier sentence of budgetStrategy follows the
\* sum of the prices, not their average: at most 50 budget-friendly, above
\* 50 and at most 100 mid-range, above 100 premium; exactly one is present.
C18_TierOfSum ==
    (dietary.done /\ DietCount > 0) =>
        LET Has(sentence) == Includes(dietary.budgetStrategy, sentence)
        IN  /\ Has(BudgetFriendly) <=> PriceSum <= 2 * 50
            /\ Has(MidRange) <=> (PriceSum > 2 * 50 /\ PriceSum <= 2 * 100)
            /\ Has(Premium) <=> PriceSum > 2 * 100

\* two dishes of 50 each: the sum is 100, the average 50
C18_Witness ==
    /\ dietary.done
    /\ dietItems = Arr(<<GoatStew, GoatStew>>)
    /\ Includes(dietary.budgetStrategy, MidRange)

\* budgetStrategy without its closing sentence
BeforeClosing(text) ==
    LET at == {i \in 1..(Len(text) - 8) : SubSeq(text, i, i + 8) = "For your "}
    IN  IF at = {} THEN text ELSE SubSeq(text, 1, (CHOOSE i \in at : TRUE) - 1)

\* C19: choosing another hunger level for the same items changes only the
\* closing sentence of budgetStrategy: dietaryNotes, and the count, average
\* price and tier sentence of budgetStrategy stay the same.
C19_HungerChangesClosingOnly ==
    [][(dietary.done /\ dietary'.done /\ dietItems' = dietItems) =>
            /\ dietary'.dietaryNotes = dietary.dietaryNotes
            /\ BeforeClosing(dietary'.budgetStrategy) = BeforeClosing(dietary.budgetStrategy)
            /\ dietary'.categories = dietary.categories]_vars

\* a summary of two dishes rendered for another hunger level than the first
C19_Witness ==
    /\ dietary.done
    /\ DietCount = 2
    /\ hungerLevel = "very"
    /\ Includes(dietary.budgetStrategy, "For your substantial hunger")

StartsWith(text, prefix) ==
    Len(text) >= Len(prefix) /\ SubSeq(text, 1, Len(prefix)) = prefix

\* an analysis of the Analysis type: every combo an object with an array of
\* indices, every entry of health_rank the index of an item
IsTyped(a) ==
    /\ IsArray(a.combos) =>
          \A k \in 1..Len(a.combos.a) :
              a.combos.a[k].t = "object" /\ IsArray(a.combos.a[k].item_indices)
    /\ \A k \in 1..Len(a.health_rank.a) :
          LET idx == a.health_rank.a[k]
          IN  idx.t = "number" /\ idx.n % 2 = 0 /\ idx.n >= 0 /\ idx.n < 2 * Len(a.items.a)

NutritionLine(m) ==
    "\nEstimated nutrition: " \o NumberToString(MathRound(m.calories.n)) \o " kcal; "
        \o NumberToString(MathRound(m.protein_g.n)) \o "g protein, "
        \o NumberToString(MathRound(m.carbs_g.n)) \o "g carbohydrates, "
        \o NumberToString(MathRound(m.fat_g.n)) \o "g fats.\n"

\* the names of the items at the indices that lie within the items
RECURSIVE InRangeNames(_, _)
InRangeNames(items, idxs) ==
    IF idxs = <<>> THEN <<>>
    ELSE LET i == Head(idxs).n \div 2
         IN  (IF Head(idxs).n % 2 = 0 /\ i >= 0 /\ i < Len(items)
              THEN <<items[i + 1].name>> ELSE <<>>)
                 \o InRangeNames(items, Tail(idxs))

\* C21: with a combo the explanation tells sumPrice and the rounded
\* sumMacros over the item_indices of combos[0], an out-of-range index
\* adding 0 and no name; without a combo the price and own macros of the
\* item at health_rank[0]; with neither, nutrition figures of 0.
C21_ToldFigures ==
    (explanation.done /\ analysis # Null /\ IsTyped(analysis)) =>
        LET items == analysis.items.a
            rank == analysis.health_rank.a
        IN  IF IsArray(analysis.combos) /\ Len(analysis.combos.a) > 0
            THEN LET combo == analysis.combos.a[1]
                     idxs == combo.item_indices.a
                 IN  /\ explanation.choiceLine =
                            "Top pairing: " \o combo.title.s \o " - "
                                \o Join(InRangeNames(items, idxs))
                                \o " (" \o gbp(sumPrice(items, idxs)) \o ")."
                     /\ Includes(explanation.text, NutritionLine(sumMacros(items, idxs)))
            ELSE IF Len(rank) > 0
            THEN LET best == items[(rank[1].n \div 2) + 1]
                 IN  /\ explanation.choiceLine =
                            "Healthiest single: " \o best.name.s
                                \o " (" \o gbp(best.price) \o ")."
                     /\ Includes(explanation.text,
                                 NutritionLine([f \in NutritionFields |-> best[f]]))
            ELSE Includes(explanation.text, NutritionLine(ZeroMacros))

\* a combo over the olives (45.5 kcal) and an index outside the items
C21_Witness ==
    /\ explanation.done
    /\ analysis # Null
    /\ analysis.combos = Arr(<<FarCombo, LeanCombo>>)
    /\ explanation.choiceLine = "Top pairing: Feast - Olives (GBP3.50)."
    /\ Includes(explanation.text, "Estimated nutrition: 46 kcal; 1g protein, 2g carbohydrates, 5g fats.")

\* C22: over the items validateMenuData returns, sumPrice and the four
\* fields of sumMacros are numbers not below 0, for every index sequence.
C22_SumsNonNegative ==
    hpc = "summed" =>
        /\ total.t = "number" /\ total.n >= 0
        /\ \A f \in NutritionFields : macros[f].t = "number" /\ macros[f].n >= 0

SuppliedRanking ==
    /\ pc = "validated"
    /\ ~validated.threw
    /\ IsArray(parsed.health_rank)
    /\ Len(parsed.health_rank.a) = Len(parsed.items.a)
    /\ \A k \in 1..Len(parsed.health_rank.a) :
          LET idx == parsed.health_rank.a[k]
          IN  idx.t = "number" /\ idx.n % 2 = 0 /\ idx.n >= 0
                  /\ idx.n < 2 * Len(parsed.items.a)

\* C24 as stated: a raw health_rank of exactly items.length indices within
\* the items is returned element for element, and rankItems is not invoked.
C24_SuppliedRankingKept ==
    SuppliedRanking =>
        /\ validated.value.health_rank = parsed.health_rank
        /\ RankItemsCalls(parsed) = 0

\* C24 amended: the same for a non-empty raw health_rank; for no items and
\* an empty health_rank rankItems is invoked once and returns the empty ranking.
C24_NonEmptySuppliedRankingKept ==
    SuppliedRanking =>
        /\ validated.value.health_rank = parsed.health_rank
        /\ RankItemsCalls(parsed) = (IF Len(parsed.health_rank.a) = 0 THEN 1 ELSE 0)

\* a supplied order kept although it puts the lower score first
C24_Witness ==
    /\ SuppliedRanking
    /\ OutCount = 2
    /\ validated.value.health_rank = parsed.health_rank
    /\ scoreItem(OutItem(validated.value.health_rank.a[1].n \div 2 + 1))
          < scoreItem(OutItem(validated.value.health_rank.a[2].n \div 2 + 1))

\* a raw field as the output holds it when nothing repairs it
Kept(v, default) == IF Truthy(v) THEN v ELSE default

\* C25: the items returned are as many as the input's and item i is the
\* repaired item i of the input (its name, description, price and macros
\* those of raw item i, or the defaults); combos and notes are returned as
\* given, combo indices unchecked.
C25_ItemsKeepTheirPlaces ==
    (pc = "validated" /\ ~validated.threw) =>
        /\ OutCount = Len(parsed.items.a)
        /\ \A k \in 1..OutCount :
              /\ OutItem(k).name = Kept(RawItem(k).name, Str("Unknown Item"))
              /\ OutItem(k).description = Kept(RawItem(k).description, Str(""))
              /\ \A f \in {"price", "protein_g", "carbs_g", "fat_g"} :
                    OutItem(k)[f] = Kept(RawItem(k)[f], Whole(0))
        /\ validated.value.combos = parsed.combos
        /\ validated.value.notes = parsed.notes

\* two different dishes, ranked second before first, keep their places
C25_Witness ==
    /\ pc = "validated"
    /\ ~validated.threw
    /\ OutCount = 2
    /\ RawItem(1) = GrilledChicken
    /\ RawItem(2) = Cheesecake
    /\ OutItem(1).name = Str("Grilled Chicken")
    /\ validated.value.health_rank = Arr(<<Whole(1), Whole(0)>>)

\* the analyseMenu calls in flight
Running == {c \in calls : c.op = "analyseMenu"}

\* the messages a model of the list can fail with
ModelErrors == FailureMessages \cup {ValidationMessage}

\* C26: a step in which a model answers with content that validates makes
\* analysis the validated content and error null and ends the call; a step
\* in which a model fails leaves analysis as it was, and when the model
\* is the last of the list it makes error non-null and ends the call
C26_CallOutcome ==
    [][\A c \in Running :
         /\ \A response \in AppResponses :
              (ModelAnswers(c, response) /\ ~validateMenuData(response).threw)
                => /\ analysis' = validateMenuData(response).value
                   /\ error' = Null
                   /\ Running' = {}
         /\ \A err \in ModelErrors :
              FailModel(c, err)
                => /\ analysis' = analysis
                   /\ c.model = Len(VISION_MODELS) => (error' # Null /\ Running' = {})
                   /\ c.model < Len(VISION_MODELS) => (error' = error /\ Running' # {})]_vars

\* a second call has failed on all three models and the analysis of the
\* first call is still held
C26_Witness ==
    /\ Running = {}
    /\ error = Str("Network request failed")
    /\ ~loading
    /\ analysis # Null
    /\ analysis.items.a[1].name = Str("Grilled Chicken")

\* C27: a call starts with the first model of the list; the model in
\* request changes only to the next of the list, after the one before has
\* failed; a model that succeeds ends the call; and when the last model
\* fails the error shown is the message of that model's failure
C27_ModelOrder ==
    [][/\ \A d \in Running' \ Running :
            \/ Running = {} /\ d.model = 1 /\ d.lastError = Null
            \/ \E c \in Running \ Running' :
                 /\ d.model = c.model + 1
                 /\ d.image = c.image
                 /\ d.lastError \in ModelErrors
                 /\ \E err \in ModelErrors : FailModel(c, err)
       /\ \A d \in Running' : d.model \in 1..Len(VISION_MODELS)
       /\ \A c \in Running, response \in AppResponses :
            (ModelAnswers(c, response) /\ ~validateMenuData(response).threw)
              => Running' = {}
       /\ \A c \in Running, err \in ModelErrors :
            (FailModel(c, err) /\ c.model = Len(VISION_MODELS))
              => (error' = Reported(err) /\ Running' = {})]_vars

\* the third model is in request after the first two have failed
C27_Witness ==
    \E c \in Running :
        /\ VISION_MODELS[c.model] = "gpt-4o-mini"
        /\ c.lastError = Str("Invalid response format from OpenAI API")

\* C28: whenever no analyseMenu call is in flight loading is false, and
\* whenever loading is true it is false again later, given that each
\* network request eventually returns
C28_LoadingBrackets ==
    /\ [](Running = {} => ~loading)
    /\ (loading ~> ~loading)

\* a call that set loading has ended by the failure of all models
C28_Witness ==
    /\ Running = {}
    /\ ~loading
    /\ error = Str("OpenAI error 500: ")

\* C29: a call of analyseMenu without image data or without a key makes
\* error non-null and changes neither the calls in flight, nor loading, nor
\* analysis, nor the held image
C29_Guards ==
    [][\A key \in BOOLEAN :
         (analyseMenu(key) /\ (~Truthy(imageBase64) \/ ~key))
           => /\ error' # Null
              /\ calls' = calls
              /\ loading' = loading
              /\ analysis' = analysis
              /\ analysisOf' = analysisOf
              /\ imageUri' = imageUri
              /\ imageBase64' = imageBase64]_vars

\* analyseMenu was called while an image without base64 data is held
C29_Witness ==
    /\ error = Str("No image data found - try again and allow base64.")
    /\ Truthy(imageUri)
    /\ ~Truthy(imageBase64)
    /\ ~loading
    /\ calls = {}

\* C30: whenever speaking is true it is false again later, given that every
\* awaited step returns and that playback finishes or fails
C30_SpeakingReturns == speaking ~> ~speaking

====
